---- MODULE Spec2Model ----
(***************************************************************************)
(* Model of tg-assistant: the SQLite message store (src/db.py), the        *)
(* ingestion path and the /find classification cycle (src/main.py).        *)
(*                                                                         *)
(* Coroutines are cut at their await points: between two awaits a task     *)
(* runs atomically on the asyncio loop, at an await any other task may     *)
(* run.  Telethon dispatches every update in a task of its own, so the     *)
(* handlers of several events are in flight together.                      *)
(***************************************************************************)
EXTENDS Integers, Sequences, FiniteSets, TLC

(***************************************************************************)
(* Bounds of the model.                                                    *)
(***************************************************************************)
MaxId == 2        \* message ids are 1..MaxId
MaxIngest == 2    \* calls of save_message in one run
MaxCycles == 2    \* /find events in one run
MaxMatches == 2   \* entries of a "matches" list of the classifier
MaxDialogs == 2   \* dialogs of the account the backfill scan reads

\* limit=200 of the fetch in find_vacancies.
FetchLimit == 200

Ids == 1..MaxId
Dates == {1, 2}
Cycles == 1..MaxCycles

(***************************************************************************)
(* Integers of the size of Telegram chat ids: sign, multiple of 10^12 and  *)
(* remainder, value = (+/-)(hi * 10^12 + lo) with 0 <= lo < 10^12.         *)
(***************************************************************************)
Big(neg, hi, lo) == [neg |-> neg, hi |-> hi, lo |-> lo]

\* A channel (-100xxxxxxxxxx form) and a chat without the offset.
ChatIds == {Big(TRUE, 1, 7), Big(FALSE, 0, 7)}

(***************************************************************************)
(* Python optionals are sequences of length <= 1: <<>> is None.            *)
(***************************************************************************)
None == <<>>
Some(x) == <<x>>

\* `x or d` for an optional int or str attribute
OrElse(x, d, falsy) == IF x = None \/ x[1] = falsy THEN d ELSE x[1]

(***************************************************************************)
(* Telethon messages as the ingestion path reads them.  The history of the *)
(* two conversations is fixed: message ids are numbered per conversation,  *)
(* channel posts are anonymous, dates do not decrease with the id inside a *)
(* conversation.  The first post of the channel has no text at first and   *)
(* is edited later, so that two reads of it differ in the text.            *)
(***************************************************************************)
SenderOf(chat_id) == IF chat_id.neg THEN None ELSE Some(7)
DateOf(chat_id, id) == IF chat_id.neg /\ id <= 2 THEN 1 ELSE 2
TextsOf(chat_id, id) ==
    IF chat_id.neg /\ id = 1 THEN {None, Some("job")} ELSE {Some("job")}

Messages ==
    {m \in [id : Ids, chat_id : ChatIds, sender_id : {None, Some(7)},
            message : {None, Some("job")}, date : Dates] :
        /\ m.sender_id = SenderOf(m.chat_id)
        /\ m.date = DateOf(m.chat_id, m.id)
        /\ m.message \in TextsOf(m.chat_id, m.id)}

\* MessageRecord(...) of save_message in main.py; date.isoformat() of the
\* UTC datetimes of Telethon keeps their order, dates stay their rank
MessageRecord(m) ==
    [id |-> m.id, chat_id |-> m.chat_id,
     sender |-> OrElse(m.sender_id, 0, 0),
     text |-> OrElse(m.message, "", ""),
     date |-> m.date, processed |-> 0]

Records == {MessageRecord(m) : m \in Messages}

(***************************************************************************)
(* The messages table.  A row of a database written before the processed   *)
(* column existed has no such field.                                       *)
(***************************************************************************)
LegacyColumns == {"id", "chat_id", "sender", "text", "date"}
AllColumns == LegacyColumns \cup {"processed"}

LegacyRow(r) ==
    [id |-> r.id, chat_id |-> r.chat_id, sender |-> r.sender,
     text |-> r.text, date |-> r.date]

\* the tables a database file of an earlier version may hold
LegacyTables ==
    {{}} \cup {{LegacyRow(r)} : r \in {x \in Records : x.id = 1 /\ x.date = 1 /\ x.text = ""}}

VARIABLES
    columns,    \* columns of table messages; {} while the table does not exist
    rows,       \* rows of table messages
    lock,       \* Database._lock: the task holding it, or NoTask
    waiters,    \* tasks waiting for Database._lock, in arrival order
    saved,      \* (id, chat_id) of the messages whose save_message call has returned
    nIngest,    \* save_message calls made
    cyc,        \* the /find handlers: position, locals and replies sent
    scan,       \* collect_unread_archived_channels: position, locals and result
    failed,     \* (id, chat_id) of the messages whose save_message call has raised
    probe       \* a pure function called on its own: the arguments and the results

vars == <<columns, rows, lock, waiters, saved, nIngest, cyc, scan, failed, probe>>

NoTask == [kind |-> "none", who |-> <<>>]
SaveTask(r) == [kind |-> "save", who |-> <<r>>]
MarkTask(c) == [kind |-> "mark", who |-> <<c>>]
ScanTask(r) == [kind |-> "scan", who |-> <<r>>]

Ready == "processed" \in columns

(***************************************************************************)
(* SQL statements of db.py.                                                *)
(***************************************************************************)
\* ALTER TABLE messages ADD COLUMN processed INTEGER NOT NULL DEFAULT 0
AddProcessedColumn(t) ==
    {[id |-> r.id, chat_id |-> r.chat_id, sender |-> r.sender,
      text |-> r.text, date |-> r.date, processed |-> 0] : r \in t}

\* a slip: the row is inserted with processed = 1
InsertAsProcessed(t, r) ==
    IF \E x \in t : x.id = r.id THEN t ELSE t \cup {[r EXCEPT !.processed = 1]}

\* a slip: INSERT OR REPLACE
InsertOrReplace(t, r) == {x \in t : x.id # r.id} \cup {r}

\* INSERT OR IGNORE INTO messages ...: the primary key is id
InsertOrIgnore(t, r) ==
    IF \E x \in t : x.id = r.id THEN t ELSE t \cup {r}

\* a slip: UPDATE messages SET processed = (id IN (ids))
UpdateProcessedOnly(t, ids) ==
    {[r EXCEPT !.processed = IF r.id \in ids THEN 1 ELSE 0] : r \in t}

\* a slip: an upsert, INSERT OR REPLACE of a processed row for every id
UpdateOrInsert(t, ids) ==
    {[r EXCEPT !.processed = 1] : r \in {x \in t : x.id \in ids}}
        \cup {x \in t : x.id \notin ids}
        \cup {[id |-> i, chat_id |-> Big(FALSE, 0, 0), sender |-> 0, text |-> "",
               date |-> 1, processed |-> 1] : i \in {j \in ids : \A x \in t : x.id # j}}

\* a slip: UPDATE messages SET processed = 1, no WHERE
UpdateAllRows(t, ids) == {[r EXCEPT !.processed = 1] : r \in t}

\* UPDATE messages SET processed = 1 WHERE id IN (ids)
UpdateProcessed(t, ids) ==
    {IF r.id \in ids THEN [r EXCEPT !.processed = 1] ELSE r : r \in t}

\* Range of a sequence
Range(s) == {s[i] : i \in 1..Len(s)}

\* a slip: ORDER BY id ASC
OrderedById(S) ==
    {s \in [1..Cardinality(S) -> S] :
        /\ \A i, j \in 1..Cardinality(S) : i # j => s[i] # s[j]
        /\ \A i, j \in 1..Cardinality(S) : i < j => s[i].id <= s[j].id}

\* the orders in which SELECT ... ORDER BY date ASC may return the rows of S:
\* rows of equal date come in an order SQL leaves open
OrderedByDate(S) ==
    {s \in [1..Cardinality(S) -> S] :
        /\ \A i, j \in 1..Cardinality(S) : i # j => s[i] # s[j]
        /\ \A i, j \in 1..Cardinality(S) : i < j => s[i].date <= s[j].date}

Min(a, b) == IF a < b THEN a ELSE b

\* SELECT ... WHERE processed = 0 ORDER BY date ASC LIMIT limit
fetch_unprocessed(t, limit) ==
    {SubSeq(s, 1, Min(limit, Len(s))) :
        s \in OrderedByDate({r \in t : r.processed = 0})}

(***************************************************************************)
(* Database.init                                                           *)
(***************************************************************************)
\* a slip: the table is dropped and created again
db_init_recreate ==
    /\ columns' = AllColumns
    /\ rows' = {}
    /\ UNCHANGED <<lock, waiters, saved, nIngest, cyc, scan, failed, probe>>

db_init ==
    /\ columns' = AllColumns
    /\ rows' = IF columns = {} THEN {}
               ELSE IF "processed" \notin columns THEN AddProcessedColumn(rows)
               ELSE rows
    /\ UNCHANGED <<lock, waiters, saved, nIngest, cyc, scan, failed, probe>>

(***************************************************************************)
(* Database._lock (asyncio.Lock): taken at once when it is free and nobody *)
(* waits, else the caller queues; a release wakes the first waiter.        *)
(***************************************************************************)
\* a slip: the write section is entered without waiting for its holder
AcquireUnlocked(task) == lock' = task /\ waiters' = waiters

Acquire(task) ==
    IF lock = NoTask /\ waiters = <<>>
    THEN lock' = task /\ waiters' = waiters
    ELSE lock' = lock /\ waiters' = Append(waiters, task)

WakeUp ==
    /\ lock = NoTask
    /\ waiters # <<>>
    /\ lock' = Head(waiters)
    /\ waiters' = Tail(waiters)
    /\ UNCHANGED <<columns, rows, saved, nIngest, cyc, scan, failed, probe>>

(***************************************************************************)
(* save_message of main.py up to the lock of Database.save_message: the    *)
(* live handler and the backfill scan both come here.                      *)
(***************************************************************************)
save_message(m) ==
    /\ Ready
    /\ nIngest < MaxIngest
    /\ nIngest' = nIngest + 1
    /\ Acquire(SaveTask(MessageRecord(m)))
    /\ UNCHANGED <<columns, rows, saved, cyc, scan, failed, probe>>

\* Database.save_message inside the lock: insert, commit, release, return
save_message_commit ==
    /\ lock.kind = "save"
    /\ rows' = InsertOrIgnore(rows, lock.who[1])
    /\ saved' = saved \cup {[id |-> lock.who[1].id, chat_id |-> lock.who[1].chat_id]}
    /\ lock' = NoTask
    /\ UNCHANGED <<columns, waiters, nIngest, cyc, scan, failed, probe>>

(***************************************************************************)
(* JSON values as json.loads builds them: a tag and a payload.  A str is   *)
(* a sequence of characters; a character is a token (a word, a blank, a    *)
(* backtick, a stray brace, the letters "json") or the text of a whole     *)
(* JSON value.  A dict is a set of <<key, value>> pairs.                   *)
(***************************************************************************)
JNull == [t |-> "null", v |-> <<>>]
JBool(b) == [t |-> "bool", v |-> b]
JNum(n) == [t |-> "num", v |-> n]
JStr(s) == [t |-> "str", v |-> s]
JList(l) == [t |-> "list", v |-> l]
JObj(ps) == [t |-> "obj", v |-> ps]

Tok(k) == [t |-> "tok", v |-> k]
Word(w) == <<Tok(w)>>
Blank == Tok(" ")
Tick == Tok("backtick")
JsonTag == Tok("json")
LBrace == Tok("{")
RBrace == Tok("}")

IsJson(ch) == ch.t # "tok"

\* bool(x) of Python
Truthy(j) ==
    CASE j.t = "null" -> FALSE
      [] j.t = "bool" -> j.v
      [] j.t = "num" -> j.v # 0
      [] j.t = "str" -> j.v # <<>>
      [] j.t = "list" -> j.v # <<>>
      [] j.t = "obj" -> j.v # {}

\* dict.get(key, default)
Get(j, key, default) ==
    IF \E p \in j.v : p[1] = key
    THEN (CHOOSE p \in j.v : p[1] = key)[2]
    ELSE default

\* r.id == msg_id of Python for an int r.id: True == 1, "1" != 1
PyEqInt(n, j) ==
    \/ j.t = "num" /\ j.v = n
    \/ j.t = "bool" /\ n = (IF j.v THEN 1 ELSE 0)

(***************************************************************************)
(* _parse_proxyapi_json                                                    *)
(***************************************************************************)
RECURSIVE LStrip(_, _)
LStrip(s, ch) == IF s # <<>> /\ Head(s) = ch THEN LStrip(Tail(s), ch) ELSE s

RECURSIVE RStrip(_, _)
RStrip(s, ch) ==
    IF s # <<>> /\ s[Len(s)] = ch THEN RStrip(SubSeq(s, 1, Len(s) - 1), ch) ELSE s

\* str.strip() and str.strip of backticks
Strip(s, ch) == RStrip(LStrip(s, ch), ch)

StartsWithFence(s) == Len(s) >= 3 /\ s[1] = Tick /\ s[2] = Tick /\ s[3] = Tick

\* json.loads: blanks around exactly one JSON value; "{" blanks "}" is {}
json_loads(s) ==
    LET b == Strip(s, Blank) IN
    IF Len(b) = 1 /\ IsJson(b[1]) THEN Some(b[1])
    ELSE IF Len(b) >= 2 /\ b[1] = LBrace /\ b[Len(b)] = RBrace
            /\ \A i \in 2..(Len(b) - 1) : b[i] = Blank THEN Some(JObj({}))
    ELSE None

\* the characters of s with every list written out one level per pass, so
\* that the braces inside a list are seen by find and rfind
RECURSIVE Spell(_)
Spell(s) ==
    IF s = <<>> THEN <<>>
    ELSE IF Head(s).t = "list"
         THEN <<Tok("[")>> \o Spell(Head(s).v) \o <<Tok("]")>> \o Spell(Tail(s))
         ELSE <<Head(s)>> \o Spell(Tail(s))

HasOpen(ch) == ch = LBrace \/ ch.t = "obj"
HasClose(ch) == ch = RBrace \/ ch.t = "obj"

\* text.find("{") and text.rfind("}") as positions in Spell(text); 0 is -1
Find(s) ==
    IF \E i \in 1..Len(s) : HasOpen(s[i])
    THEN CHOOSE i \in 1..Len(s) : HasOpen(s[i]) /\ \A j \in 1..(i - 1) : ~HasOpen(s[j])
    ELSE 0
RFind(s) ==
    IF \E i \in 1..Len(s) : HasClose(s[i])
    THEN CHOOSE i \in 1..Len(s) : HasClose(s[i]) /\ \A j \in (i + 1)..Len(s) : ~HasClose(s[j])
    ELSE 0

\* a slip: no fallback to the first "{" and the last "}"
NoFallback(text) == None

ParseFallback(text) ==
    LET sp == Spell(text)
        start == Find(sp)
        end == RFind(sp)
    IN  IF start # 0 /\ end # 0
           /\ (end > start \/ (end = start /\ sp[start].t = "obj"))
        THEN json_loads(SubSeq(sp, start, end))
        ELSE None

\* None, or Some(parsed value); content is a str.  json.loads("null") is the
\* None of Python
_parse_proxyapi_json(content) ==
    IF content = <<>> THEN None
    ELSE
      LET t1 == Strip(content, Blank)
          t2 == IF StartsWithFence(t1)
                THEN LET u == Strip(t1, Tick) IN
                     IF u # <<>> /\ Head(u) = JsonTag
                     THEN LStrip(Tail(u), Blank) ELSE u
                ELSE t1
          strict == json_loads(t2)
      IN  IF strict = Some(JNull) THEN None
          ELSE IF strict # None THEN strict
          ELSE ParseFallback(t2)

(***************************************************************************)
(* _chat_link: the t.me/c/<raw>/<message_id> link as its two segments.     *)
(***************************************************************************)
\* a slip: the offset is never subtracted
_chat_link_abs(chat_id, message_id) ==
    [raw |-> Big(FALSE, chat_id.hi, chat_id.lo), msg |-> message_id]

_chat_link(chat_id, message_id) ==
    LET raw == Big(FALSE, chat_id.hi, chat_id.lo)     \* abs(chat_id)
        over == raw.hi > 1 \/ (raw.hi = 1 /\ raw.lo > 0)    \* raw > 10**12
    IN  [raw |-> IF over THEN Big(FALSE, raw.hi - 1, raw.lo) ELSE raw,
         msg |-> message_id]

(***************************************************************************)
(* What the classifier may answer.  call_proxyapi raises (transport error, *)
(* timeout, status not ok, body not JSON) or returns the decoded body.     *)
(***************************************************************************)
Summary == JStr(Word("Frontend role"))

ItemIdVals == {JNum(i) : i \in 0..(MaxId + 1)} \cup {JStr(Word("1"))}

\* entries of "matches" that are objects: any id, no id, no summary
ObjItems ==
    {JObj({<<"id", x>>, <<"summary", Summary>>}) : x \in ItemIdVals}
        \cup {JObj({<<"summary", Summary>>})}

\* entries of "matches" that are no objects
OtherItems == {JStr(Word("junk")), JNull}

Items == ObjItems \cup OtherItems

MatchLists == UNION {[1..n -> Items] : n \in 0..MaxMatches}

\* the JSON values a response text may carry
Bodies ==
    {JObj({<<"matches", JList(l)>>}) : l \in MatchLists}
        \cup {JObj({}), JObj({<<"error", JStr(Word("busy"))>>}),
              JObj({<<"matches", JNull>>}), JObj({<<"matches", JNum(5)>>}),
              JObj({<<"matches", JBool(TRUE)>>}),
              JObj({<<"matches", JStr(Word("none"))>>}),
              JObj({<<"matches", JObj({<<"id", JNum(1)>>})>>}),
              JList(<<>>), JList(<<JObj({<<"matches", JList(<<>>)>>})>>),
              JNum(0), JNum(5), JStr(Word("ok")), JNull, JBool(TRUE)}

\* the values that are also sent inside fences and prose
WrappedBodies ==
    {JObj({<<"matches", JList(<<>>)>>}),
     JObj({<<"matches", JList(<<JObj({<<"id", JNum(1)>>, <<"summary", Summary>>})>>)>>}),
     JObj({}), JList(<<JObj({<<"matches", JList(<<>>)>>})>>), JNum(5)}

Fence == <<Tick, Tick, Tick>>

Texts ==
    {<<b>> : b \in Bodies}
        \cup {<<Blank, b, Blank>> : b \in WrappedBodies}
        \cup {Fence \o <<JsonTag, Blank, b, Blank>> \o Fence : b \in WrappedBodies}
        \cup {Fence \o <<Blank, b, Blank>> \o Fence : b \in WrappedBodies}
        \cup {Fence \o <<Tok("javascript"), Blank, b, Blank>> \o Fence : b \in WrappedBodies}
        \cup {Word("Here") \o <<Blank, b, Blank>> \o Word("done") : b \in WrappedBodies}
        \cup {<<b, Blank, LBrace>> \o Word("smile") \o <<RBrace>> : b \in WrappedBodies}
        \cup {<<>>, <<Blank>>, Word("Sorry"), <<LBrace, RBrace>>,
              <<LBrace>> \o Word("x") \o <<RBrace>>, <<RBrace, LBrace>>, Fence}

ChatCompletion(content) ==
    JObj({<<"choices", JList(<<JObj({<<"message", JObj({<<"content", content>>})>>})>>)>>})

\* the decoded bodies of a successful HTTP response
Datas ==
    {ChatCompletion(JStr(t)) : t \in Texts}
        \cup {ChatCompletion(JNull), ChatCompletion(JNum(5)),
              JObj({}), JObj({<<"choices", JList(<<>>)>>}),
              JObj({<<"choices", JList(<<JStr(Word("x"))>>)>>}),
              JObj({<<"choices", JList(<<JObj({<<"message", JNull>>})>>)>>}),
              JList(<<>>), JNull}

Responses ==
    {[raised |-> TRUE, data |-> JNull]} \cup {[raised |-> FALSE, data |-> d] : d \in Datas}

(***************************************************************************)
(* find_vacancies, the try block:                                          *)
(*   data.get("choices", [{}])[0].get("message", {}).get("content", "")    *)
(* None when an exception is raised, else Some(content).                   *)
(***************************************************************************)
ExtractContent(data) ==
    IF data.t # "obj" THEN None
    ELSE LET choices == Get(data, "choices", JList(<<JObj({})>>)) IN
         IF choices.t # "list" \/ choices.v = <<>> THEN None
         ELSE LET first == choices.v[1] IN
              IF first.t # "obj" THEN None
              ELSE LET message == Get(first, "message", JObj({})) IN
                   IF message.t # "obj" THEN None
                   ELSE Some(Get(message, "content", JStr(<<>>)))

\* the try block as a whole: [raised, parsed]; parsed is None or Some(value)
TryBlock(resp) ==
    IF resp.raised \/ ExtractContent(resp.data) = None
    THEN [raised |-> TRUE, parsed |-> None]
    ELSE LET content == ExtractContent(resp.data)[1] IN
         IF ~Truthy(content) THEN [raised |-> FALSE, parsed |-> None]
         ELSE IF content.t # "str" THEN [raised |-> TRUE, parsed |-> None]  \* no .strip
         ELSE [raised |-> FALSE, parsed |-> _parse_proxyapi_json(content.v)]

\* the ways the try block can end, over all answers of the classifier
TryResults == {TryBlock(resp) : resp \in Responses}

(***************************************************************************)
(* find_vacancies after the try block.                                     *)
(***************************************************************************)
Reply(kind) == [kind |-> kind, lines |-> <<>>]
Digest(lines) == [kind |-> "digest", lines |-> lines]

Ack == Reply("ack")                      \* "Ищу подходящие вакансии..."
NothingToDo == Reply("nothing_to_do")    \* "Новых необработанных сообщений нет."
NoResponse == Reply("no_response")       \* "Не удалось получить ответ ProxyAPI."
Unparseable == Reply("unparseable")      \* "Не удалось разобрать ответ ProxyAPI (не JSON)."
NoneFound == Reply("none_found")         \* "Подходящих вакансий не найдено."

\* a slip: the link is built from the id of the match, not from a record
LookupFabricated(records, msg_id) ==
    IF msg_id.t = "num" /\ records # <<>>
    THEN Some([records[1] EXCEPT !.id = msg_id.v]) ELSE None

\* next((r for r in records if r.id == msg_id), None)
Lookup(records, msg_id) ==
    LET hits == {i \in 1..Len(records) : PyEqInt(records[i].id, msg_id)} IN
    IF hits = {} THEN None
    ELSE Some(records[CHOOSE i \in hits : \A j \in hits : i <= j])

\* the for loop over matches: [crash, lines]; an entry without .get raises
RECURSIVE MatchLoop(_, _, _)
MatchLoop(items, records, lines) ==
    IF items = <<>> THEN [crash |-> FALSE, lines |-> lines]
    ELSE LET item == Head(items) IN
         IF item.t # "obj" THEN [crash |-> TRUE, lines |-> lines]
         ELSE LET msg_id == Get(item, "id", JNull)
                  summary == Get(item, "summary", JStr(<<>>))
                  rec == Lookup(records, msg_id)
              IN  IF ~Truthy(msg_id) \/ rec = None
                  THEN MatchLoop(Tail(items), records, lines)
                  ELSE MatchLoop(Tail(items), records,
                           Append(lines, [summary |-> summary,
                                          link |-> _chat_link(rec[1].chat_id, rec[1].id)]))

\* what iterating over matches yields: a str yields its characters, a dict
\* its keys, both of them str; anything else that is no list is not iterable
Iterate(matches) ==
    CASE matches.t = "list" -> Some(matches.v)
      [] matches.t = "str" -> Some([i \in 1..Len(matches.v) |-> JStr(<<matches.v[i]>>)])
      [] matches.t = "obj" -> Some(<<JStr(Word("key"))>>)
      [] OTHER -> None

Goes(pc, out, err) == [pc |-> pc, out |-> out, err |-> err]

\* lines 238-261 for a parsed value that is truthy: the replies sent, where
\* the coroutine goes next and the uncaught error that ends it, if any
Resolve(records, parsed) ==
    IF parsed.t # "obj" THEN Goes("crashed", <<>>, "parsed.get")
    ELSE LET got == Get(parsed, "matches", JNull)
             matches == IF Truthy(got) THEN got ELSE JList(<<>>)
         IN  IF ~Truthy(matches) THEN Goes("mark", <<NoneFound>>, "none")
             ELSE IF Iterate(matches) = None
             THEN Goes("crashed", <<>>, "for item in matches")
             ELSE LET loop == MatchLoop(Iterate(matches)[1], records, <<>>) IN
                  IF loop.crash THEN Goes("crashed", <<>>, "item.get")
                  ELSE IF loop.lines = <<>> THEN Goes("mark", <<NoneFound>>, "none")
                  ELSE Goes("mark", <<Digest(loop.lines)>>, "none")

\* a slip that commits the batch on the failure path as well
ReconcileMarkOnFailure(records, try) ==
    IF try.raised THEN Goes("mark", <<NoResponse>>, "none")
    ELSE IF try.parsed = None \/ ~Truthy(try.parsed[1])
    THEN Goes("mark", <<Unparseable>>, "none")
    ELSE Resolve(records, try.parsed[1])

\* lines 229-263 for the outcome of the try block
Reconcile(records, try) ==
    IF try.raised THEN Goes("done", <<NoResponse>>, "none")
    ELSE IF try.parsed = None \/ ~Truthy(try.parsed[1])
    THEN Goes("done", <<Unparseable>>, "none")
    ELSE Resolve(records, try.parsed[1])

\* how the try block of a cycle ended: the call or the parse raised, parsed
\* is None, or parsed is a value
TryOutcome(try) ==
    IF try.raised THEN "raised" ELSE IF try.parsed = None THEN "None" ELSE "value"

Idle == [pc |-> "idle", batch |-> <<>>, out |-> <<>>, parsed |-> "unset", err |-> "none"]

(***************************************************************************)
(* find_handler: the acknowledgment, then find_vacancies.                  *)
(***************************************************************************)
find_handler(c) ==
    /\ Ready
    /\ cyc[c].pc = "idle"
    /\ \A d \in Cycles : d < c => cyc[d].pc # "idle"
    /\ cyc' = [cyc EXCEPT ![c].pc = "fetch", ![c].out = <<Ack>>]
    /\ UNCHANGED <<columns, rows, lock, waiters, saved, nIngest, scan, failed, probe>>

\* a slip: no check for an empty batch
find_vacancies_unchecked(c) ==
    /\ cyc[c].pc = "fetch"
    /\ \E records \in fetch_unprocessed(rows, FetchLimit) :
          cyc' = [cyc EXCEPT ![c].pc = "calling", ![c].batch = records]
    /\ UNCHANGED <<columns, rows, lock, waiters, saved, nIngest, scan, failed, probe>>

\* fetch_unprocessed; nothing to do, or the prompt is built and the call of
\* the classifier starts in the executor
find_vacancies(c) ==
    /\ cyc[c].pc = "fetch"
    /\ \E records \in fetch_unprocessed(rows, FetchLimit) :
          cyc' = IF records = <<>>
                 THEN [cyc EXCEPT ![c].pc = "done",
                                  ![c].out = Append(cyc[c].out, NothingToDo)]
                 ELSE [cyc EXCEPT ![c].pc = "calling", ![c].batch = records]
    /\ UNCHANGED <<columns, rows, lock, waiters, saved, nIngest, scan, failed, probe>>

\* the locals and replies of cycle c once the try block has ended as try
AfterTry(c, try) ==
    LET r == Reconcile(cyc[c].batch, try) IN
    [cyc[c] EXCEPT !.pc = r.pc, !.out = cyc[c].out \o r.out, !.err = r.err,
                   !.parsed = TryOutcome(try)]

\* the call of the classifier returns or raises: the rest of the try block,
\* the matching and the reply
call_proxyapi_returns(c) ==
    /\ cyc[c].pc = "calling"
    /\ \E after \in {AfterTry(c, try) : try \in TryResults} :
          cyc' = [cyc EXCEPT ![c] = after]
    /\ UNCHANGED <<columns, rows, lock, waiters, saved, nIngest, scan, failed, probe>>

BatchIds(c) == {cyc[c].batch[i].id : i \in 1..Len(cyc[c].batch)}

\* db.mark_processed([r.id for r in records]) up to the lock
mark_processed(c) ==
    /\ cyc[c].pc = "mark"
    /\ IF cyc[c].batch = <<>>
       THEN /\ cyc' = [cyc EXCEPT ![c].pc = "done"]
            /\ UNCHANGED <<lock, waiters>>
       ELSE /\ cyc' = [cyc EXCEPT ![c].pc = "marking"]
            /\ Acquire(MarkTask(c))
    /\ UNCHANGED <<columns, rows, saved, nIngest, scan, failed, probe>>

\* Database.mark_processed inside the lock: update, commit, release, return
mark_processed_commit ==
    /\ lock.kind = "mark"
    /\ rows' = UpdateProcessed(rows, BatchIds(lock.who[1]))
    /\ lock' = NoTask
    /\ cyc' = [cyc EXCEPT ![lock.who[1]].pc = "done"]
    /\ UNCHANGED <<columns, waiters, saved, nIngest, scan, failed, probe>>

(***************************************************************************)
(* The dialogs of the account as collect_unread_archived_channels reads    *)
(* them.  Four conversations: two broadcast channels, a supergroup and a   *)
(* private chat.  In the first channel and in the supergroup the dates     *)
(* grow with the id; the second channel holds a backdated first post (an   *)
(* imported history), so its newest-first stream comes back to a later     *)
(* date.  Broadcast posts are anonymous.                                   *)
(***************************************************************************)
Conversations ==
    {[id |-> Big(TRUE, 1, 8), kind |-> "broadcast", backdated |-> FALSE],
     [id |-> Big(TRUE, 1, 9), kind |-> "broadcast", backdated |-> TRUE],
     [id |-> Big(TRUE, 1, 10), kind |-> "megagroup", backdated |-> FALSE],
     [id |-> Big(FALSE, 0, 7), kind |-> "user", backdated |-> FALSE]}

\* a dialog of the account: the conversation, its folder (1 is the archive)
\* and dialog.dialog.read_inbox_max_id
AccountDialogs ==
    {[conv |-> cv, folder |-> f, read_inbox_max_id |-> rm] :
        cv \in Conversations, f \in {0, 1}, rm \in {None, Some(1)}}

\* the dialog lists of an account: every conversation at most once
DialogLists ==
    {ds \in UNION {[1..n -> AccountDialogs] : n \in 0..MaxDialogs} :
        \A i, j \in 1..Len(ds) : i # j => ds[i].conv # ds[j].conv}

\* Dialog.is_channel of Telethon: the entity is a Channel, broadcast or
\* supergroup
is_channel(dialog) == dialog.conv.kind \in {"broadcast", "megagroup"}

\* the message id of a conversation as Telethon returns it
HistoryMessage(cv, id) ==
    [id |-> id, chat_id |-> cv.id,
     sender_id |-> IF cv.kind = "broadcast" THEN None ELSE Some(7),
     message |-> Some("job"),
     date |-> IF cv.backdated THEN (IF id = 1 THEN 2 ELSE 1)
                              ELSE (IF id = 1 THEN 1 ELSE 2)]

\* client.iter_dialogs(folder=1)
iter_dialogs(ds) == SelectSeq(ds, LAMBDA dg : dg.folder = 1)

\* client.iter_messages(dialog.id, min_id=read_max): the messages with a
\* greater id, newest first
iter_messages(dialog, min_id) ==
    [i \in 1..(IF MaxId > min_id THEN MaxId - min_id ELSE 0) |->
        HistoryMessage(dialog.conv, MaxId + 1 - i)]

\* getattr(dialog.dialog, "read_inbox_max_id", None) or 0
ReadMax(dialog) == OrElse(dialog.read_inbox_max_id, 0, 0)

\* now - timedelta(hours=hours) against the dates of the histories: before
\* all of them, between them, after all of them
Cutoffs == Dates \cup {Cardinality(Dates) + 1}

NoScan ==
    [pc |-> "idle", account |-> <<>>, cutoff |-> 0, d |-> 0, k |-> 0,
     collected |-> 0, seen |-> {}, returned |-> None]

\* the dialog and the message stream the scan is at
ScanDialog == iter_dialogs(scan.account)[scan.d]
ScanStream == iter_messages(ScanDialog, ReadMax(ScanDialog))

\* lines 92-93: the cutoff is taken, nothing collected yet
collect_unread_archived_channels(ds, cutoff) ==
    /\ Ready
    /\ scan.pc = "idle"
    /\ scan' = [scan EXCEPT !.pc = "dialogs", !.account = ds, !.cutoff = cutoff]
    /\ UNCHANGED <<columns, rows, lock, waiters, saved, nIngest, cyc, failed, probe>>

\* lines 95-99 and 115: the next archived dialog; a dialog that is no channel
\* is passed over; after the last one the count is returned
next_dialog ==
    /\ scan.pc = "dialogs"
    /\ scan' =
          IF scan.d = Len(iter_dialogs(scan.account))
          THEN [scan EXCEPT !.pc = "done", !.returned = Some(scan.collected)]
          ELSE IF ~is_channel(iter_dialogs(scan.account)[scan.d + 1])
          THEN [scan EXCEPT !.d = scan.d + 1]
          ELSE [scan EXCEPT !.d = scan.d + 1, !.k = 0, !.pc = "messages"]
    /\ UNCHANGED <<columns, rows, lock, waiters, saved, nIngest, cyc, failed, probe>>

\* what the scan has read so far: conversation and message id
Seen(msg) == [id |-> msg.id, chat_id |-> msg.chat_id]

\* a slip: a message older than the cutoff is passed over and the stream is
\* read on (continue for break)
next_message_continue ==
    /\ scan.pc = "messages"
    /\ IF scan.k = Len(ScanStream)
       THEN /\ scan' = [scan EXCEPT !.pc = "dialogs"]
            /\ UNCHANGED <<lock, waiters>>
       ELSE LET msg == ScanStream[scan.k + 1] IN
            IF msg.date < scan.cutoff
            THEN /\ scan' = [scan EXCEPT !.k = scan.k + 1,
                                         !.seen = scan.seen \cup {Seen(msg)}]
                 /\ UNCHANGED <<lock, waiters>>
            ELSE /\ scan' = [scan EXCEPT !.pc = "saving", !.k = scan.k + 1,
                                         !.seen = scan.seen \cup {Seen(msg)}]
                 /\ Acquire(ScanTask(MessageRecord(msg)))
    /\ UNCHANGED <<columns, rows, saved, nIngest, cyc, failed, probe>>

\* lines 101-112: the next message of the dialog; the stream is left at its
\* end and at the first message older than the cutoff, any other message
\* goes to save_message
next_message ==
    /\ scan.pc = "messages"
    /\ IF scan.k = Len(ScanStream)
       THEN /\ scan' = [scan EXCEPT !.pc = "dialogs"]
            /\ UNCHANGED <<lock, waiters>>
       ELSE LET msg == ScanStream[scan.k + 1] IN
            IF msg.date < scan.cutoff
            THEN /\ scan' = [scan EXCEPT !.pc = "dialogs", !.k = scan.k + 1,
                                         !.seen = scan.seen \cup {Seen(msg)}]
                 /\ UNCHANGED <<lock, waiters>>
            ELSE /\ scan' = [scan EXCEPT !.pc = "saving", !.k = scan.k + 1,
                                         !.seen = scan.seen \cup {Seen(msg)}]
                 /\ Acquire(ScanTask(MessageRecord(msg)))
    /\ UNCHANGED <<columns, rows, saved, nIngest, cyc, failed, probe>>

\* Database.save_message inside the lock for the scan, then lines 78 and 113
scan_save_commit ==
    /\ lock.kind = "scan"
    /\ rows' = InsertOrIgnore(rows, lock.who[1])
    /\ saved' = saved \cup {[id |-> lock.who[1].id, chat_id |-> lock.who[1].chat_id]}
    /\ lock' = NoTask
    /\ scan' = [scan EXCEPT !.pc = "messages", !.collected = scan.collected + 1]
    /\ UNCHANGED <<columns, waiters, nIngest, cyc, failed, probe>>

\* a slip: the error is swallowed and the call counts as a successful insert
save_message_swallows ==
    /\ lock.kind \in {"save", "scan"}
    /\ failed' = failed \cup {[id |-> lock.who[1].id, chat_id |-> lock.who[1].chat_id]}
    /\ saved' = saved \cup {[id |-> lock.who[1].id, chat_id |-> lock.who[1].chat_id]}
    /\ lock' = NoTask
    /\ scan' = IF lock.kind = "scan"
               THEN [scan EXCEPT !.pc = "messages", !.collected = scan.collected + 1]
               ELSE scan
    /\ UNCHANGED <<columns, rows, waiters, nIngest, cyc, probe>>

\* the insert or the commit raises (disk full, database locked by another
\* process, file gone): the connection closes without a commit, the lock is
\* released, and the exception leaves save_message and its caller
save_message_raises ==
    /\ lock.kind \in {"save", "scan"}
    /\ failed' = failed \cup {[id |-> lock.who[1].id, chat_id |-> lock.who[1].chat_id]}
    /\ lock' = NoTask
    /\ scan' = IF lock.kind = "scan" THEN [scan EXCEPT !.pc = "raised"] ELSE scan
    /\ UNCHANGED <<columns, rows, waiters, saved, nIngest, cyc, probe>>

NoProbe == [fn |-> "none", args |-> <<>>, results |-> <<>>]

(***************************************************************************)
(* The database file before the first Database.init, nothing running.      *)
(***************************************************************************)
Init ==
    /\ \/ columns = {} /\ rows = {}
       \/ columns = LegacyColumns /\ rows \in LegacyTables
    /\ lock = NoTask
    /\ waiters = <<>>
    /\ saved = {}
    /\ nIngest = 0
    /\ cyc = [c \in Cycles |-> Idle]
    /\ scan = NoScan
    /\ failed = {}
    /\ probe = NoProbe

Next ==
    \/ db_init
    \/ WakeUp
    \/ \E m \in Messages : save_message(m)
    \/ save_message_commit
    \/ \E c \in Cycles : find_handler(c)
    \/ \E c \in Cycles : find_vacancies(c)
    \/ \E c \in Cycles : call_proxyapi_returns(c)
    \/ \E c \in Cycles : mark_processed(c)
    \/ mark_processed_commit

Spec == Init /\ [][Next]_vars

(***************************************************************************)
(* The store called on its own: inserts, and Database.mark_processed with  *)
(* the ids of any records, stored or not, none at all included.            *)
(***************************************************************************)
AnyRecords ==
    {[id |-> i, chat_id |-> Big(TRUE, 1, 7), sender |-> 0, text |-> "job",
      date |-> 1, processed |-> 0] : i \in 1..(MaxId + 1)}

\* lists of records in ascending order of id
AnyBatches ==
    {b \in UNION {[1..n -> AnyRecords] : n \in 0..MaxId} :
        \A i, j \in 1..Len(b) : i < j => b[i].id < b[j].id}

\* a caller c holding records is about to call
\* db.mark_processed([r.id for r in records])
call_mark_processed(c, records) ==
    /\ Ready
    /\ cyc[c].pc = "idle"
    /\ cyc' = [cyc EXCEPT ![c].pc = "mark", ![c].batch = records]
    /\ UNCHANGED <<columns, rows, lock, waiters, saved, nIngest, scan, failed, probe>>

NextStore ==
    \/ db_init
    \/ WakeUp
    \/ \E m \in Messages : save_message(m)
    \/ save_message_commit
    \/ \E c \in Cycles : \E records \in AnyBatches : call_mark_processed(c, records)
    \/ \E c \in Cycles : mark_processed(c)
    \/ mark_processed_commit

SpecStore == Init /\ [][NextStore]_vars

(***************************************************************************)
(* The pure functions of main.py called on their own.  A call of the       *)
(* parser is made for each of the texts of a case in turn: one JSON object *)
(* as raw JSON, in a fenced block with a language tag and inside prose, or *)
(* a single text that holds no JSON.                                       *)
(***************************************************************************)
\* JSON objects a response may hold
ObjectBodies ==
    {JObj({<<"matches", JList(l)>>}) : l \in UNION {[1..n -> ObjItems] : n \in 0..1}}
        \cup {JObj({}), JObj({<<"error", JStr(Word("busy"))>>})}

\* language tags of a fenced block
Tags == {JsonTag, Tok("javascript")}

\* prose around the JSON: words, and words with an aside in braces before
\* or after the JSON
Proses ==
    {[before |-> Word("Here") \o <<Blank>>, after |-> <<Blank>> \o Word("done")],
     [before |-> <<>>, after |-> <<Blank>> \o Word("done")],
     [before |-> Word("Here") \o <<Blank>>,
      after |-> <<Blank, LBrace>> \o Word("smile") \o <<RBrace>>],
     [before |-> <<LBrace>> \o Word("note") \o <<RBrace, Blank>>, after |-> <<>>]}

Raw(b) == <<b>>
Fenced(tag, b) == Fence \o <<tag, Blank, b, Blank>> \o Fence
InProse(p, b) == p.before \o <<b>> \o p.after

\* texts that hold no JSON
NoJsonTexts ==
    {<<>>, <<Blank>>, Word("Sorry"), Word("Sorry") \o <<Blank>> \o Word("busy"),
     Fence, Fence \o <<JsonTag, Blank>> \o Fence, <<LBrace>>, <<RBrace, LBrace>>,
     <<LBrace>> \o Word("x") \o <<RBrace>>}

ParseCases ==
    {<<Raw(b), Fenced(tag, b), InProse(p, b)>> :
        b \in ObjectBodies, tag \in Tags, p \in Proses}
        \cup {<<t>> : t \in NoJsonTexts}

\* conversation ids around the offset 10^12, of both signs, zero left out
LinkIds ==
    {Big(neg, hi, lo) : neg \in BOOLEAN, hi \in 0..2, lo \in {0, 1, 7}}
        \ {Big(neg, 0, 0) : neg \in BOOLEAN}

LinkCases == {<<chat_id, message_id>> : chat_id \in LinkIds, message_id \in Ids}

InitPure ==
    /\ columns = {}
    /\ rows = {}
    /\ lock = NoTask
    /\ waiters = <<>>
    /\ saved = {}
    /\ nIngest = 0
    /\ cyc = [c \in Cycles |-> Idle]
    /\ scan = NoScan
    /\ failed = {}
    /\ \/ probe \in {[fn |-> "_parse_proxyapi_json", args |-> a, results |-> <<>>] :
                        a \in ParseCases}
       \/ probe \in {[fn |-> "_chat_link", args |-> a, results |-> <<>>] :
                        a \in LinkCases}

\* _parse_proxyapi_json(content) for the next text of the case
call_parse_proxyapi_json ==
    /\ probe.fn = "_parse_proxyapi_json"
    /\ Len(probe.results) < Len(probe.args)
    /\ probe' = [probe EXCEPT !.results =
                    Append(@, _parse_proxyapi_json(probe.args[Len(@) + 1]))]
    /\ UNCHANGED <<columns, rows, lock, waiters, saved, nIngest, cyc, scan, failed>>

\* _chat_link(chat_id, message_id)
call_chat_link ==
    /\ probe.fn = "_chat_link"
    /\ probe.results = <<>>
    /\ probe' = [probe EXCEPT !.results = <<_chat_link(probe.args[1], probe.args[2])>>]
    /\ UNCHANGED <<columns, rows, lock, waiters, saved, nIngest, cyc, scan, failed>>

NextPure ==
    \/ call_parse_proxyapi_json
    \/ call_chat_link

SpecPure == InitPure /\ [][NextPure]_vars

(***************************************************************************)
(* The backfill scan at startup, live messages arriving meanwhile, and a   *)
(* storage that may fail.                                                  *)
(***************************************************************************)
\* the messages that arrive while the scan runs
LiveDuringScan == {m \in Messages : m.id = 1 /\ m.message # None}

NextBackfill ==
    \/ db_init
    \/ WakeUp
    \/ \E m \in LiveDuringScan : save_message(m)
    \/ save_message_commit
    \/ \E ds \in DialogLists : \E cutoff \in Cutoffs :
          collect_unread_archived_channels(ds, cutoff)
    \/ next_dialog
    \/ next_message
    \/ scan_save_commit
    \/ save_message_raises

SpecBackfill == Init /\ [][NextBackfill]_vars

(***************************************************************************)
(* /find events over a backlog that no insert adds to: the store as the    *)
(* ingestion and earlier cycles have left it, and then the handlers of the *)
(* /find events only, MaxCycles of them in flight at a time.  The asyncio  *)
(* loop runs every task that is ready, so every step of a handler that can *)
(* be taken is taken; the user sends /find again and again.                *)
(***************************************************************************)
\* a stored record, classified already or not
Stored(r, p) == [r EXCEPT !.processed = p]

\* the tables the store may hold: one row for an id
Backlogs ==
    {t \in SUBSET {Stored(r, p) : r \in Records, p \in {0, 1}} :
        \A x, y \in t : x.id = y.id => x = y}

InitDrain ==
    /\ columns = AllColumns
    /\ rows \in Backlogs
    /\ lock = NoTask
    /\ waiters = <<>>
    /\ saved = {[id |-> r.id, chat_id |-> r.chat_id] : r \in rows}
    /\ nIngest = Cardinality(rows)
    /\ cyc = [c \in Cycles |-> Idle]
    /\ scan = NoScan
    /\ failed = {}
    /\ probe = NoProbe

\* the task of a /find handler is over, find_vacancies has returned or an
\* error has left it: the next /find event gets a handler of its own
find_handler_ends(c) ==
    /\ cyc[c].pc \in {"done", "crashed"}
    /\ cyc' = [cyc EXCEPT ![c] = Idle]
    /\ UNCHANGED <<columns, rows, lock, waiters, saved, nIngest, scan, failed, probe>>

NextDrain ==
    \/ WakeUp
    \/ \E c \in Cycles : find_handler(c)
    \/ \E c \in Cycles : find_handler_ends(c)
    \/ \E c \in Cycles : find_vacancies(c)
    \/ \E c \in Cycles : call_proxyapi_returns(c)
    \/ \E c \in Cycles : mark_processed(c)
    \/ mark_processed_commit

\* the request of call_proxyapi has a timeout: the call returns or raises
CallEnds(c) == []<>(cyc[c].pc # "calling")

FairDrain ==
    /\ WF_vars(WakeUp)
    /\ WF_vars(mark_processed_commit)
    /\ \A c \in Cycles :
          /\ WF_vars(find_handler(c))
          /\ WF_vars(find_handler_ends(c))
          /\ WF_vars(find_vacancies(c))
          /\ CallEnds(c)
          /\ WF_vars(mark_processed(c))

SpecDrain == InitDrain /\ [][NextDrain]_vars /\ FairDrain

(***************************************************************************)
(* Properties.                                                             *)
(***************************************************************************)
Key(r) == [id |-> r.id, chat_id |-> r.chat_id]
RowsOf(id) == {x \in rows : x.id = id}
Last(q) == q[Len(q)]
Ended(c) == cyc[c].pc \in {"done", "crashed"}
ResultKinds == {"nothing_to_do", "no_response", "unparseable", "none_found", "digest"}

\* the step is the return of Database.save_message for the record in the lock
SaveReturns == lock.kind = "save" /\ lock' = NoTask

\* C1: an insert of a record whose id is already stored returns without an
\* error, changes no row, and leaves exactly one row for that id (the row of
\* the first insert, with its chat_id, sender, text, date and processed).
C1_DedupIdempotence ==
    [][SaveReturns =>
         LET r == lock.who[1] IN
         /\ Key(r) \in saved'
         /\ Cardinality({x \in rows' : x.id = r.id}) = 1
         /\ (RowsOf(r.id) # {} => rows' = rows)]_vars

\* two inserts of one id with different payloads have returned, one row is
\* stored for the id
C1_Witness ==
    \E p, q \in saved :
        p.id = q.id /\ p # q /\ Cardinality(RowsOf(p.id)) = 1 /\ nIngest = MaxIngest

\* the step is the return of the classifier call of cycle c
CallReturns(c) == cyc[c].pc = "calling" /\ cyc'[c].pc # "calling"

\* C2: the step that ends the try block of a cycle on a failed call or an
\* unparseable response sends the diagnostic, changes no row and ends the
\* cycle without a mark step, so a fetch after it returns again every record
\* of the batch that was unprocessed before it.
C2_FailedCycleKeepsBatch ==
    [][\A c \in Cycles :
         (/\ CallReturns(c)
          /\ \/ cyc'[c].parsed \in {"raised", "None"}
             \/ Last(cyc'[c].out).kind \in {"no_response", "unparseable"})
         => /\ cyc'[c].pc = "done"
            /\ cyc'[c].out = Append(cyc[c].out,
                   IF cyc'[c].parsed = "raised" THEN NoResponse ELSE Unparseable)
            /\ rows' = rows
            /\ lock' = lock
            /\ waiters' = waiters
            /\ \A s \in fetch_unprocessed(rows', FetchLimit) :
                  \A i \in 1..Len(cyc[c].batch) :
                     cyc[c].batch[i] \in rows => cyc[c].batch[i] \in Range(s)]_vars

\* a cycle has ended on a failure and the records of its batch are stored
\* unprocessed as they were fetched
C2_Witness ==
    \E c \in Cycles :
        /\ cyc[c].pc = "done"
        /\ cyc[c].parsed \in {"raised", "None"}
        /\ cyc[c].batch # <<>>
        /\ \A i \in 1..Len(cyc[c].batch) : cyc[c].batch[i] \in rows

\* the try block ended with a parsed object whose "matches" is a list
ParsedMatches(try) ==
    /\ ~try.raised
    /\ try.parsed # None
    /\ try.parsed[1].t = "obj"
    /\ Get(try.parsed[1], "matches", JNull).t = "list"

MatchesOf(try) == Get(try.parsed[1], "matches", JNull).v

MatchTries == {try \in TryResults : ParsedMatches(try)}

\* C3: whenever the response parses to a list of matches, empty or not, the
\* cycle goes on to mark its whole batch processed.
C3_ParsedBatchMarked ==
    [][\A c \in Cycles :
         CallReturns(c) =>
            \A try \in MatchTries :
               cyc'[c] = AfterTry(c, try) => cyc'[c].pc = "mark"]_vars

\* C4: every message whose save_message call has returned is stored with its
\* id and its conversation.
C4_NoMessageLost ==
    \A p \in saved : \E x \in rows : x.id = p.id /\ x.chat_id = p.chat_id

\* C5: a stored record with processed = 1 has processed = 1 after every step:
\* an insert of its id, a step of a cycle, Database.init.
C5_ProcessedMonotonic ==
    [][Ready =>
         \A x \in rows : x.processed = 1 =>
             \E y \in rows' : y.id = x.id /\ y.processed = 1]_vars

\* a record is processed and an insert of its id from the other conversation
\* has returned
C5_Witness ==
    /\ Ready
    /\ \E x \in rows : \E p \in saved :
          x.processed = 1 /\ p.id = x.id /\ p.chat_id # x.chat_id

\* the cycle has completed with a parsed response
Completed(c) ==
    /\ cyc[c].pc = "done"
    /\ Last(cyc[c].out).kind \in {"none_found", "digest"}

\* C6: no record is in the batches of two cycles that both complete with a
\* parsed response.
C6_NoReprocessing ==
    \A c, d \in Cycles :
        (c # d /\ Completed(c) /\ Completed(d)) => BatchIds(c) \cap BatchIds(d) = {}

\* C7: a cycle that has ended has sent the acknowledgment and then exactly one
\* result message.
C7_AckThenOneResult ==
    \A c \in Cycles :
        Ended(c) => /\ Len(cyc[c].out) = 2
                    /\ cyc[c].out[1] = Ack
                    /\ cyc[c].out[2].kind \in ResultKinds

\* the id of the entry is the id of a record of the batch
Resolves(item, batch) ==
    item.t = "obj" /\ \E i \in 1..Len(batch) : PyEqInt(batch[i].id, Get(item, "id", JNull))

Resolved(try, batch) ==
    {n \in 1..Len(MatchesOf(try)) : Resolves(MatchesOf(try)[n], batch)}

\* the lists of matches all of whose entries are objects
ObjectTries ==
    {try \in MatchTries : \A n \in 1..Len(MatchesOf(try)) : MatchesOf(try)[n].t = "obj"}

\* C8: every digest line of a cycle carries the link of a record of the batch
\* of that cycle, and whatever list of objects the pending call of a cycle
\* returns, the reply has one line per entry whose id is the id of a record of
\* the batch, none for the others.
C8_LinesResolveInBatch ==
    \A c \in Cycles :
        /\ \A k \in 1..Len(cyc[c].out) : \A n \in 1..Len(cyc[c].out[k].lines) :
              \E i \in 1..Len(cyc[c].batch) :
                 cyc[c].out[k].lines[n].link
                     = _chat_link(cyc[c].batch[i].chat_id, cyc[c].batch[i].id)
        /\ cyc[c].pc = "calling" =>
              \A try \in ObjectTries :
                 Len(Last(AfterTry(c, try).out).lines)
                     = Cardinality(Resolved(try, cyc[c].batch))

\* a digest has been sent for a response that also named an id outside the
\* batch: fewer lines than the matches list could hold, all of the batch
C8_Witness ==
    \E c \in Cycles :
        /\ Ended(c)
        /\ Len(cyc[c].batch) = MaxId
        /\ Last(cyc[c].out).kind = "digest"
        /\ Len(Last(cyc[c].out).lines) = 1

\* C9: a response with a list of matches one of whose entries is malformed (no
\* object, no id, an id of no record of the batch) still gets its result
\* message, with one line per well-formed entry, and its batch marked.
C9_MalformedMatchDropped ==
    [][\A c \in Cycles :
         CallReturns(c) =>
            \A try \in MatchTries :
               (/\ cyc'[c] = AfterTry(c, try)
                /\ Cardinality(Resolved(try, cyc[c].batch)) < Len(MatchesOf(try)))
               => /\ cyc'[c].pc = "mark"
                  /\ Len(cyc'[c].out) = Len(cyc[c].out) + 1
                  /\ Len(Last(cyc'[c].out).lines)
                        = Cardinality(Resolved(try, cyc[c].batch))]_vars

\* C10: the fetch step of a cycle that finds no unprocessed record sends the
\* nothing-to-do message and ends the cycle there (the classifier is not
\* called), and changes neither the rows nor the lock.
C10_EmptyBatchNoMutation ==
    [][\A c \in Cycles :
         (/\ cyc[c].pc = "fetch"
          /\ cyc'[c].pc # "fetch"
          /\ \A x \in rows : x.processed = 1)
         => /\ cyc'[c].pc = "done"
            /\ cyc'[c].out = Append(cyc[c].out, NothingToDo)
            /\ cyc'[c].batch = <<>>
            /\ rows' = rows
            /\ lock' = lock
            /\ waiters' = waiters]_vars

\* a cycle has found every stored record processed and has answered that
\* there is nothing to do
C10_Witness ==
    \E c \in Cycles :
        /\ cyc[c].pc = "done"
        /\ cyc[c].out = <<Ack, NothingToDo>>
        /\ rows # {}

\* the rows a fetch may return
Unprocessed == {x \in rows : x.processed = 0}
Limits == (0..(MaxId + 1)) \cup {FetchLimit}
SortedByDate(s) == \A i, j \in 1..Len(s) : i < j => s[i].date <= s[j].date

\* C11: whatever rows are stored and whatever the limit, every result of
\* fetch_unprocessed holds only stored rows with processed = 0, each once, as
\* many as the limit allows and no more, in ascending order of date, and no
\* unprocessed row left out is older than a row returned; the batch a cycle
\* has fetched is in ascending order of date.
C11_FetchOldestFirst ==
    /\ \A c \in Cycles : SortedByDate(cyc[c].batch)
    /\ Ready =>
          \A limit \in Limits : \A s \in fetch_unprocessed(rows, limit) :
             /\ Range(s) \subseteq Unprocessed
             /\ \A i, j \in 1..Len(s) : i # j => s[i] # s[j]
             /\ Len(s) = Min(limit, Cardinality(Unprocessed))
             /\ SortedByDate(s)
             /\ \A x \in Unprocessed \ Range(s) : \A i \in 1..Len(s) : s[i].date <= x.date

\* a cycle has fetched two records whose order of date is the reverse of
\* their order of id (the order of the rows in the table), and a fetch of one
\* record of such a table returns the older one
C11_Witness ==
    \E c \in Cycles :
        /\ Len(cyc[c].batch) = 2
        /\ cyc[c].batch[1].date < cyc[c].batch[2].date
        /\ cyc[c].batch[1].id > cyc[c].batch[2].id
        /\ Range(cyc[c].batch) = Unprocessed
        /\ fetch_unprocessed(rows, 1) = {<<cyc[c].batch[1]>>}

\* row x after UPDATE ... SET processed = 1 WHERE id IN (ids)
Marked(x, ids) == IF x.id \in ids THEN [x EXCEPT !.processed = 1] ELSE x

\* C12: the commit of mark_processed(ids) leaves, for every stored row, the
\* same row with processed = 1 if its id is in ids and the row itself if not,
\* and no other row (none is created for an id that is not stored), and the
\* call returns; a call with no ids returns at once and changes neither the
\* rows nor the lock.
C12_MarkExactlyIds ==
    [][\A c \in Cycles :
         /\ (lock = MarkTask(c) /\ lock' = NoTask)
               => /\ rows' = {Marked(x, BatchIds(c)) : x \in rows}
                  /\ Cardinality(rows') = Cardinality(rows)
                  /\ \A x \in rows : x.id \notin BatchIds(c) => x \in rows'
                  /\ cyc'[c].pc = "done"
         /\ (cyc[c].pc = "mark" /\ cyc[c].batch = <<>> /\ cyc'[c] # cyc[c])
               => /\ rows' = rows
                  /\ lock' = lock
                  /\ waiters' = waiters
                  /\ cyc'[c].pc = "done"]_vars

\* a call with the id of a stored row and an id that is not stored has
\* returned: the row is processed, another stored row is not, no row has the
\* other id; and a call with no ids has returned
C12_Witness ==
    \E c, d \in Cycles :
        /\ cyc[c].pc = "done"
        /\ BatchIds(c) = {1, MaxId + 1}
        /\ \E x, y \in rows : x.id = 1 /\ x.processed = 1 /\ y.id # 1 /\ y.processed = 0
        /\ RowsOf(MaxId + 1) = {}
        /\ cyc[d].pc = "done"
        /\ cyc[d].batch = <<>>
        /\ cyc[d].out = <<>>

\* the archived dialogs the scan goes through, and whether it has left the
\* j-th of them
Archived == iter_dialogs(scan.account)
ScanLeft(j) == scan.d > j \/ (scan.d = j /\ scan.pc \in {"dialogs", "done"})

\* the length of the leading run of messages at or after the cutoff
PrefixLen(st, cutoff) ==
    CHOOSE n \in 0..Len(st) :
        /\ \A i \in 1..n : st[i].date >= cutoff
        /\ n = Len(st) \/ st[n + 1].date < cutoff

OfConversation(keys, dg) == {p \in keys : p.chat_id = dg.conv.id}

InWriteSection ==
    {MarkTask(c) : c \in {d \in Cycles : cyc[d].pc = "marking"
                                          /\ MarkTask(d) \notin Range(waiters)}}
        \cup {t \in {lock} : t.kind \in {"save", "scan"}}

\* C14: at most one task is inside a write section of the store (the insert
\* of save_message, the update of mark_processed), and it is the holder of
\* Database._lock; every other cycle that has called mark_processed waits in
\* the queue of the lock.
C14_WritesExclusive ==
    /\ Cardinality(InWriteSection) <= 1
    /\ InWriteSection \subseteq {lock}
    /\ \A c \in Cycles :
          cyc[c].pc = "marking" => lock = MarkTask(c) \/ MarkTask(c) \in Range(waiters)

\* a cycle is inside the update of mark_processed while another cycle and an
\* insert wait for the lock
C14_Witness ==
    /\ lock.kind = "mark"
    /\ \E i, j \in 1..Len(waiters) : waiters[i].kind = "mark" /\ waiters[j].kind = "save"

\* the step is a save_message call ending in a storage error
SaveRaises == failed' # failed

\* C15: the step in which an insert fails commits no row, adds the message
\* neither to the messages saved nor to the count of the scan, and releases
\* the lock; a scan whose insert failed has ended there, with no count
\* returned, and never goes on.
C15_FailedInsertNotStored ==
    [][/\ SaveRaises =>
             /\ rows' = rows
             /\ saved' = saved
             /\ scan'.collected = scan.collected
             /\ scan'.returned = scan.returned
             /\ lock' = NoTask
             /\ lock.kind = "scan" => scan'.pc = "raised" /\ scan'.returned = None
       /\ scan.pc = "raised" => scan' = scan]_vars

\* an insert of the scan has failed after one that succeeded, and an insert
\* of a live message has failed: neither message is saved or stored
C15_Witness ==
    /\ scan.pc = "raised"
    /\ scan.collected = 1
    /\ \E p, q \in failed :
          /\ p \in scan.seen
          /\ q.chat_id \in ChatIds
          /\ {p, q} \cap saved = {}
          /\ \A x \in rows : Key(x) \notin {p, q}

\* row y holds the id, chat_id, sender, text and date of row x
SameMessage(x, y) ==
    /\ y.id = x.id
    /\ y.chat_id = x.chat_id
    /\ y.sender = x.sender
    /\ y.text = x.text
    /\ y.date = x.date

\* C16: every Database.init, the first and any later one, leaves the table
\* with the processed column and with the rows it had: as many, each with its
\* id, chat_id, sender, text and date, and with its processed flag, or with
\* processed = 0 if the table had no such column; it touches nothing else.
C16_InitNonDestructive ==
    [][db_init =>
         /\ columns' = AllColumns
         /\ Cardinality(rows') = Cardinality(rows)
         /\ \A x \in rows : \E y \in rows' :
               /\ SameMessage(x, y)
               /\ y.processed = IF "processed" \in columns THEN x.processed ELSE 0
         /\ UNCHANGED <<lock, waiters, saved, nIngest, cyc, scan, failed, probe>>]_vars

\* the record of a legacy table is stored after Database.init, read as
\* unprocessed by a cycle and marked processed since, with no insert made
C16_Witness ==
    /\ Ready
    /\ nIngest = 0
    /\ \E x \in rows : x.processed = 1 /\ LegacyRow(x) \in UNION LegacyTables
    /\ \E c \in Cycles : cyc[c].pc = "done" /\ Len(cyc[c].batch) = 1

\* every text of the case has been parsed
AllParsed ==
    probe.fn = "_parse_proxyapi_json" /\ Len(probe.results) = Len(probe.args)

\* the case is one JSON object as raw JSON, fenced and in prose
ThreeRenderings == Len(probe.args) = 3

\* the text holds no brace outside its JSON value
BraceFree(text) == \A i \in 1..Len(text) : text[i] \notin {LBrace, RBrace}

\* what find_vacancies sends for a parser result, and where it goes
AfterParse(result) == Reconcile(<<>>, [raised |-> FALSE, parsed |-> result])

ZeroMatches == JObj({<<"matches", JList(<<>>)>>})

Linked == probe.fn = "_chat_link" /\ probe.results # <<>>

C19_ProcessedOnlyByParsedCycle ==
    Ready =>
        \A x \in rows :
            x.processed = 1 =>
                \E c \in Cycles :
                    /\ Completed(c)
                    /\ cyc[c].parsed = "value"
                    /\ \E i \in 1..Len(cyc[c].batch) : SameMessage(cyc[c].batch[i], x)

\* a cycle has failed, another has marked its batch, and a record inserted
\* since is stored unprocessed
C19_Witness ==
    /\ \E c, d \in Cycles :
          /\ cyc[c].pc = "done"
          /\ cyc[c].parsed \in {"raised", "None"}
          /\ cyc[c].batch # <<>>
          /\ Completed(d)
    /\ \E x, y \in rows : x.processed = 1 /\ y.processed = 0 /\ Key(y) \in saved

\* C20: a cycle holds the lock of the store only inside mark_processed,
\* never from its fetch to the end of the classifier call, so an insert made
\* meanwhile is not kept waiting by it; and the commit of its mark leaves
\* every stored record that is not of its batch as it is, so that a record
\* inserted since its fetch stays unprocessed and is returned by a fetch
\* after the mark.
C20_InsertDuringCycleKept ==
    /\ [](\A c \in Cycles :
            cyc[c].pc \in {"fetch", "calling", "mark"}
               => lock # MarkTask(c) /\ MarkTask(c) \notin Range(waiters))
    /\ [][\A c \in Cycles :
            (lock = MarkTask(c) /\ lock' = NoTask)
               => \A x \in rows :
                     x.id \notin BatchIds(c)
                        => /\ x \in rows'
                           /\ x.processed = 0 =>
                                 \A s \in fetch_unprocessed(rows', FetchLimit) :
                                    x \in Range(s)]_vars

\* a cycle is about to commit its mark, and a record whose insert returned
\* after its fetch is stored unprocessed; no other cycle has started
C20_Witness ==
    \E c \in Cycles :
        /\ lock = MarkTask(c)
        /\ \A d \in Cycles : d # c => cyc[d].pc = "idle"
        /\ \E x \in rows :
              x.id \notin BatchIds(c) /\ x.processed = 0 /\ Key(x) \in saved

\* every stored record is processed
Drained == \A x \in rows : x.processed = 1

\* the classifier call of every cycle so far has returned a response that
\* parsed: nothing raised in the try block and the parser returned a value
AllParseable == \A c \in Cycles : cyc[c].parsed \in {"unset", "value"}

\* the step is the commit of a mark
MarkCommits == lock.kind = "mark" /\ lock' = NoTask

\* C21: with no insert and with classifier responses that all parse, the
\* /find cycles end with every stored record processed, for good; a mark
\* never leaves an unprocessed record older than one it marks; and a cycle
\* that fetches once all records are processed reports that there is
\* nothing to do and changes nothing.
C21_BacklogDrain ==
    /\ ([]AllParseable) =>
          /\ <>[]Drained
          /\ <>(Drained /\ \E c \in Cycles : cyc[c].out = <<Ack, NothingToDo>>)
    /\ [][MarkCommits =>
            \A x \in rows, y \in rows' :
                (x.processed = 0 /\ Stored(x, 1) \in rows' /\ y.processed = 0)
                    => x.date <= y.date]_vars
    /\ [][\A c \in Cycles :
            (Drained /\ cyc[c].pc = "fetch" /\ cyc'[c].pc # "fetch")
                => /\ cyc'[c].pc = "done"
                   /\ cyc'[c].out = <<Ack, NothingToDo>>
                   /\ rows' = rows]_vars

\* the dialogs of the account that are archived broadcast channels
Qualifying(dg) == dg.folder = 1 /\ dg.conv.kind = "broadcast"

\* the conversation of a message the scan has read
ConversationOf(p) == CHOOSE cv \in Conversations : cv.id = p.chat_id

\* the messages the scan has passed to save_message: those it has read that
\* are not older than the cutoff
Passed ==
    {p \in scan.seen : HistoryMessage(ConversationOf(p), p.id).date >= scan.cutoff}

\* the messages of the first n dialogs of the account that are to be
\* counted: for every qualifying dialog the leading run of its unread
\* messages at or after the cutoff
RECURSIVE CountOf(_, _)
CountOf(ds, n) ==
    IF n = 0 THEN 0
    ELSE CountOf(ds, n - 1)
            + (IF Qualifying(ds[n])
               THEN PrefixLen(iter_messages(ds[n], ReadMax(ds[n])), scan.cutoff)
               ELSE 0)

\* C22: the scan reads and passes to the dedup-insert only messages of
\* archived broadcast channels; when it returns, every archived broadcast
\* channel has been read up to its own first message older than the cutoff,
\* whatever the dialogs before it held, and the count returned is the sum
\* over these channels of the messages at or after the cutoff, each once,
\* stored before or not.
C22_ConversationsIndependent ==
    /\ \A p \in scan.seen :
          \E j \in 1..Len(scan.account) :
              Qualifying(scan.account[j]) /\ scan.account[j].conv.id = p.chat_id
    /\ scan.pc = "done" =>
          /\ \A j \in 1..Len(scan.account) :
                Qualifying(scan.account[j]) =>
                    LET dg == scan.account[j]
                        st == iter_messages(dg, ReadMax(dg))
                        n == PrefixLen(st, scan.cutoff)
                    IN  /\ OfConversation(scan.seen, dg)
                              = {Seen(st[i]) : i \in 1..Min(n + 1, Len(st))}
                        /\ OfConversation(Passed, dg) = {Seen(st[i]) : i \in 1..n}
          /\ scan.returned = Some(CountOf(scan.account, Len(scan.account)))
          /\ scan.returned = Some(Cardinality(Passed))

====
